---- MODULE Spec2Model ----
(***************************************************************************)
(* A model of adafruit_led_animation/animation.py: the Animation base      *)
(* class (timing gate, freeze/resume, color setter, cycle notification,    *)
(* peer fan-out) and the animations ColorCycle, Blink, Comet and Chase.    *)
(*                                                                         *)
(* Every animation object is a record; `a` maps an object id to its        *)
(* record.  A Python generator is modelled by the position at which it is  *)
(* suspended: `fresh` (created, body not yet entered) or at its `yield`    *)
(* together with its local variables.                                      *)
(*                                                                         *)
(* Colors are sequences of integers: an (r, g, b) tuple is a sequence of   *)
(* length 3 and a packed 24-bit integer c is the sequence <<c>>, so that   *)
(* Python's `tuple == int` (always False) is sequence inequality.          *)
(* None is the empty sequence.                                             *)
(*                                                                         *)
(* The pixel object is an external collaborator.  It is modelled as a      *)
(* sequence of NumPixels colors; fill() overwrites every pixel, a slice    *)
(* assignment writes the targeted in-range pixels, show() counts a frame.  *)
(* Callbacks are external too: a callback returns or raises, and its       *)
(* invocation is recorded.  An exception is modelled by the field          *)
(* `raising` of the object whose method is being left by it; animate()     *)
(* reports it to the caller.                                               *)
(***************************************************************************)
EXTENDS Integers, Sequences, FiniteSets, TLC

(* ------------------------------ bounds -------------------------------- *)

\* len(pixel_object)
NumPixels == 4
\* the clock runs from 0 to MaxTime
MaxTime == 4
\* the clock advances by 1..MaxStep per Tick
MaxStep == 2
\* speed (already in nanoseconds) is drawn from 1..MaxPeriod
MaxPeriod == 2
\* at most MaxListeners registrations per animation
MaxListeners == 2
\* notify_cycles is drawn from 1..MaxNotify
MaxNotify == 2
\* a Comet is driven for MaxSweeps of its longest sweeps
MaxSweeps == 2
\* the color setter's hook is let run at most MaxRecomputes times
MaxRecomputes == 3
\* a ColorCycle, Blink or Chase is driven for at most MaxDraws fires
MaxDraws == 5
\* a Chase is constructed with size and spacing drawn from 0..MaxBar
MaxBar == 2
\* a peer's own animate() is let fire at most MaxPeerFires times
MaxPeerFires == 1

(* ------------------------------ colors -------------------------------- *)

\* .color.BLACK
BLACK == <<0, 0, 0>>
RED == <<255, 0, 0>>
BLUE == <<0, 0, 255>>
None == <<>>

\* the packed 24-bit integer form 0xRRGGBB of a triple
Packed(t) == <<t[1] * 65536 + t[2] * 256 + t[3]>>

\* isinstance(color, int)
IsInt(color) == Len(color) = 1

\* (color >> 16 & 0xFF, color >> 8 & 0xFF, color & 0xFF)
Unpack(color) ==
    <<(color[1] \div 65536) % 256, (color[1] \div 256) % 256, color[1] % 256>>

\* the triple a color value denotes, whichever form it is in
Denotes(color) == IF IsInt(color) THEN Unpack(color) ELSE color

\* the values a caller passes as a color: triples and packed integers
ColorArgs == {RED, BLUE, BLACK, Packed(RED), Packed(BLUE), Packed(BLACK)}

(* ---------------------------- pixel object ---------------------------- *)

\* pixel_object.fill(color) on a buffer of NumPixels pixels
Fill(color) == [i \in 1..NumPixels |-> color]

\* pixel_object.fill(color) on the buffer `pixels`, whatever its length
FillPixels(pixels, color) == [i \in 1..Len(pixels) |-> color]

Min(x, y) == IF x < y THEN x ELSE y
Max(x, y) == IF x < y THEN y ELSE x

\* pixel_object[lo:hi] = vals, for 0 <= lo, 0 <= hi (Python indices, hi exclusive):
\* the slice is clipped to the buffer and its pixels take the values in order
SliceAssign(pixels, lo, hi, vals) ==
    LET start == Min(lo, Len(pixels))
        stop == Min(hi, Len(pixels))
    IN [i \in 1..Len(pixels) |->
            IF start < i /\ i <= stop /\ i - start <= Len(vals)
            THEN vals[i - start]
            ELSE pixels[i]]

\* seq[lo:hi] of a Python list, for 0 <= lo, 0 <= hi
ListSlice(seq, lo, hi) == SubSeq(seq, lo + 1, Min(hi, Len(seq)))

\* list(reversed(seq))
Reversed(seq) == [i \in 1..Len(seq) |-> seq[Len(seq) + 1 - i]]

\* range(start, stop, step) for step = 1 or step = -1, as the sequence it yields
Range(start, stop, step) ==
    LET n == IF step > 0 THEN Max(0, stop - start) ELSE Max(0, start - stop)
    IN [i \in 1..n |-> start + (i - 1) * step]

(* --------------------------- animation objects ------------------------ *)

\* the animation objects: 1 is the animation the caller drives, 2 is a peer
Ids == {1, 2}

\* the callbacks a caller can register
Listeners == 1..MaxListeners

VARIABLES
    now,    \* monotonic_ns()
    a,      \* a[id]: the fields of animation object id
    last,   \* the call that was made last, its argument and its return value
    h       \* history: times and values remembered from earlier calls

vars == <<now, a, last, h>>

\* the generator object Comet.__init__ and Comet.reset create
NewCometGenerator ==
    [fresh |-> TRUE, range |-> <<>>, pos |-> 0, colors |-> <<>>, cycle_passes |-> 0]

\* an object before any __init__ has run
Blank ==
    [ kind |-> "Animation",
      peers |-> <<>>, speed_ns |-> 0, color |-> None, paused |-> FALSE,
      next_update |-> 0, time_left_at_pause |-> 0, also_notify |-> <<>>,
      notify_cycles |-> 1, draw_count |-> 0, cycle_count |-> 0,
      \* ColorCycle
      colors |-> <<>>, gen |-> [fresh |-> TRUE, index |-> 0],
      \* Comet
      tail_length |-> 0, reverse |-> FALSE, initial_reverse |-> FALSE,
      bounce |-> FALSE, comet_colors |-> <<>>, reverse_comet_colors |-> <<>>,
      computed_color |-> None, cgen |-> NewCometGenerator,
      \* Chase
      size |-> 0, spacing |-> 0, repeat_width |-> 0, num_repeats |-> 0,
      overflow |-> 0, direction |-> 1, offset |-> 0,
      \* the generator object of a ColorCycle or Comet has terminated: an exception
      \* left its body
      finished |-> FALSE,
      \* the exception leaving the method being executed on this object ("" if none)
      raising |-> "",
      \* the callbacks that raise when they are invoked
      failing |-> {},
      \* the pixel object, and what an observer of the object counts
      pixels |-> Fill(BLACK),
      frames |-> 0,       \* calls of pixel_object.show()
      recomputes |-> 0,   \* calls of _recompute_color
      notified |-> <<>>,  \* the callbacks the last cycle_complete() invoked, in order
      \* the last slice assignment pixel_object[lo:hi] = vals: its bounds and Len(vals)
      written |-> [lo |-> 0, hi |-> 0, n |-> 0],
      sweeps |-> 0 ]      \* sweeps the current Comet generator has completed

(* ------------------------------ Animation ----------------------------- *)

\* _recompute_color(color): the hook of each class
RecomputeHook(self, color) ==
    CASE self.kind = "Blink" -> [self EXCEPT !.colors = <<color, BLACK>>]
      [] OTHER -> self

\* a call of the hook, counted
RecomputeColor(self, color) ==
    [RecomputeHook(self, color) EXCEPT !.recomputes = @ + 1]

\* the color setter's early return: self._color == color
ColorUnchanged(self, color) == self.color = color

\* the color setter
SetColorOf(self, color) ==
    IF ColorUnchanged(self, color)
    THEN self
    ELSE LET c == IF IsInt(color) THEN Unpack(color) ELSE color
         IN RecomputeColor([self EXCEPT !.color = c], c)

\* Animation.__init__ at time t
AnimationInit(self, speed, color, t) ==
    LET s1 == [self EXCEPT !.peers = <<>>, !.speed_ns = 0, !.color = None,
                           !.paused = FALSE, !.next_update = t,
                           !.time_left_at_pause = 0, !.also_notify = <<>>]
        s2 == [s1 EXCEPT !.speed_ns = speed]
        s3 == SetColorOf(s2, color)
    IN [s3 EXCEPT !.notify_cycles = 1, !.draw_count = 0, !.cycle_count = 0]

\* the callbacks, invoked in list order: the sequence of invocations, which ends at
\* the first callback that raises
RECURSIVE InvokeAll(_, _)
InvokeAll(callbacks, failing) ==
    IF callbacks = <<>> THEN <<>>
    ELSE IF Head(callbacks) \in failing THEN <<Head(callbacks)>>
    ELSE <<Head(callbacks)>> \o InvokeAll(Tail(callbacks), failing)

\* whether one of the invoked callbacks raised
CallbackRaised(invoked, failing) == \E i \in 1..Len(invoked) : invoked[i] \in failing

\* mutant of NotifyDue: the test made on the count before its increment
NotifyDueBeforeIncrement(self) == (self.cycle_count - 1) % self.notify_cycles = 0

\* cycle_complete's test: self.cycle_count % self.notify_cycles == 0
NotifyDue(self) == self.cycle_count % self.notify_cycles = 0

\* cycle_complete()
CycleComplete(self) ==
    LET s1 == [self EXCEPT !.cycle_count = @ + 1]
        invoked == IF NotifyDue(s1) THEN InvokeAll(s1.also_notify, s1.failing)
                   ELSE <<>>
    IN [s1 EXCEPT !.notified = invoked,
                  !.raising = IF CallbackRaised(invoked, s1.failing)
                              THEN "CallbackError" ELSE @]

\* freeze's self._time_left_at_pause
TimeLeftAtPause(self, t) == Max(0, t - self.next_update)

\* freeze() at time t
FreezeOf(self, t) ==
    [self EXCEPT !.paused = TRUE, !.time_left_at_pause = TimeLeftAtPause(self, t)]

\* resume() at time t
ResumeOf(self, t) ==
    [self EXCEPT !.next_update = t + self.time_left_at_pause,
                 !.time_left_at_pause = 0,
                 !.paused = FALSE]

(* ----------------------------- ColorCycle ----------------------------- *)

\* next(self._generator) of _color_generator: run to the next yield
ColorGeneratorNext(self) ==
    IF self.finished THEN [self EXCEPT !.raising = "StopIteration"]
    ELSE IF self.gen.fresh
    THEN [self EXCEPT !.gen = [fresh |-> FALSE, index |-> 0],
                      !.color = self.colors[1]]
    ELSE LET index == (self.gen.index + 1) % Len(self.colors)
             s1 == IF index = 0 THEN CycleComplete(self) ELSE self
         IN IF s1.raising # ""
            THEN [s1 EXCEPT !.finished = TRUE]
            ELSE [s1 EXCEPT !.gen = [fresh |-> FALSE, index |-> index],
                            !.color = s1.colors[index + 1]]

\* mutant of ColorCycleDraw: the generator advanced before the fill
ColorCycleDrawAdvanceFirst(self) ==
    LET s1 == ColorGeneratorNext(self)
    IN [s1 EXCEPT !.pixels = Fill(s1.color), !.frames = @ + 1]

\* ColorCycle.draw()
ColorCycleDraw(self) ==
    ColorGeneratorNext([self EXCEPT !.pixels = FillPixels(self.pixels, self.color),
                                    !.frames = @ + 1])

\* ColorCycle.__init__
ColorCycleInit(self, speed, colors, t) ==
    LET s1 == [self EXCEPT !.colors = colors]
        s2 == AnimationInit(s1, speed, colors[1], t)
        s3 == [s2 EXCEPT !.gen = [fresh |-> TRUE, index |-> 0]]
    IN IF colors = <<>>
       THEN [s1 EXCEPT !.raising = "IndexError"]    \* colors[0]
       ELSE ColorGeneratorNext(s3)

\* ColorCycle.reset()
ColorCycleReset(self) ==
    [self EXCEPT !.gen = [fresh |-> TRUE, index |-> 0], !.finished = FALSE]

\* ColorCycle(pixel_object, speed, colors)
NewColorCycle(speed, colors, t) ==
    ColorCycleInit([Blank EXCEPT !.kind = "ColorCycle"], speed, colors, t)

\* Blink(pixel_object, speed, color)
NewBlink(speed, color, t) ==
    ColorCycleInit([Blank EXCEPT !.kind = "Blink"], speed, <<color, BLACK>>, t)

(* -------------------------------- Comet ------------------------------- *)

\* __recompute_color(color): the fade table and its reverse.  _color_step is
\* 0.9 / tail_length and _color_offset is 0.1, so entry n scales each channel by
\* (9 n + tail_length) / (10 tail_length); int() truncates.
CometRecompute(self, color) ==
    LET tail == self.tail_length - 1
        shade(n) == [rgb \in 1..Len(color) |->
                        (color[rgb] * (9 * n + tail)) \div (10 * tail)]
        table == <<BLACK>> \o [k \in 1..(self.tail_length - 1) |-> shade(k - 1)]
    IN [self EXCEPT !.comet_colors = table,
                    !.reverse_comet_colors = Reversed(table),
                    !.computed_color = color]

\* mutant of CometStep: the part of the tail that hangs over the end of the buffer
\* is cut according to the tail length alone
CometStepFullTail(self, start) ==
    LET colors == self.cgen.colors
        num_visible == self.tail_length + start
        pixels == IF start <= 0
                  THEN SliceAssign(self.pixels, 0, num_visible,
                                   ListSlice(colors, self.tail_length - num_visible,
                                             Len(colors)))
                  ELSE IF start + self.tail_length <= Len(self.pixels)
                  THEN SliceAssign(self.pixels, start, start + self.tail_length,
                                   ListSlice(colors, 0, self.tail_length))
                  ELSE self.pixels
    IN [self EXCEPT !.pixels = pixels, !.frames = @ + 1]

\* mutant of GetRange: ranges that stop one position early
GetRangeOneShort(self, num_pixels) ==
    IF self.reverse
    THEN Range(num_pixels, -self.tail_length, -1)
    ELSE Range(-self.tail_length, num_pixels, 1)

\* _get_range(num_pixels)
GetRange(self, num_pixels) ==
    IF self.reverse
    THEN Range(num_pixels, -self.tail_length - 1, -1)
    ELSE Range(-self.tail_length, num_pixels + 1, 1)

\* the body of the for loop up to its yield, for one start
CometStep(self, start) ==
    LET num_pixels == Len(self.pixels)
        end == IF start + self.tail_length < num_pixels
               THEN self.tail_length
               ELSE num_pixels - start
        num_visible == self.tail_length + start
        colors == self.cgen.colors
        pixels == IF start <= 0
                  THEN SliceAssign(self.pixels, 0, num_visible,
                                   ListSlice(colors, self.tail_length - num_visible,
                                             Len(colors)))
                  ELSE SliceAssign(self.pixels, start, start + end,
                                   ListSlice(colors, 0, end))
        written == IF start <= 0
                   THEN [lo |-> 0, hi |-> num_visible,
                         n |-> Len(ListSlice(colors, self.tail_length - num_visible,
                                             Len(colors)))]
                   ELSE [lo |-> start, hi |-> start + end,
                         n |-> Len(ListSlice(colors, 0, end))]
    IN [self EXCEPT !.pixels = pixels, !.written = written, !.frames = @ + 1]

\* the top of the while loop up to the first yield of the sweep
CometSweepStart(self, cycle_passes) ==
    LET s1 == IF self.color # self.computed_color \/ self.comet_colors = <<>>
              THEN CometRecompute(self, self.color)
              ELSE self
        colors == IF s1.reverse THEN s1.reverse_comet_colors ELSE s1.comet_colors
        range == GetRange(s1, Len(s1.pixels))
        s2 == [s1 EXCEPT !.cgen = [fresh |-> FALSE, range |-> range, pos |-> 1,
                                   colors |-> colors, cycle_passes |-> cycle_passes]]
    IN CometStep(s2, range[1])

\* mutant of PassEndsCycle: a bouncing comet signals after one pass
PassEndsCycleAfterOne(self, cycle_passes) == ~self.bounce \/ cycle_passes = 1

\* whether the end of a pass signals a cycle: not self.bounce or cycle_passes == 2
PassEndsCycle(self, cycle_passes) == ~self.bounce \/ cycle_passes = 2

\* the reverse flag after a pass: if self.bounce: self.reverse = not self.reverse
ReverseAfterPass(self) == IF self.bounce THEN ~self.reverse ELSE self.reverse

\* the code after the for loop: the end of one pass
CometPassEnd(self) ==
    LET cycle_passes == self.cgen.cycle_passes + 1
        s1 == [self EXCEPT !.sweeps = @ + 1, !.reverse = ReverseAfterPass(self)]
        s2 == CycleComplete(s1)
    IN IF PassEndsCycle(s1, cycle_passes)
       THEN IF s2.raising # ""
            THEN [s2 EXCEPT !.finished = TRUE]
            ELSE CometSweepStart(s2, 0)
       ELSE CometSweepStart(s1, cycle_passes)

\* next(self._generator) of _comet_generator: run to the next yield
CometGeneratorNext(self) ==
    IF self.finished THEN [self EXCEPT !.raising = "StopIteration"]
    ELSE IF self.cgen.fresh THEN CometSweepStart(self, 0)
    ELSE IF self.cgen.pos < Len(self.cgen.range)
    THEN CometStep([self EXCEPT !.cgen.pos = @ + 1],
                   self.cgen.range[self.cgen.pos + 1])
    ELSE CometPassEnd(self)

\* Comet.draw()
CometDraw(self) == CometGeneratorNext(self)

\* Comet.reset()
CometReset(self) ==
    [self EXCEPT !.cgen = NewCometGenerator, !.sweeps = 0, !.finished = FALSE,
                 !.reverse = self.initial_reverse]

\* Comet.__init__
CometInit(self, speed, color, tail_length, reverse, bounce, t) ==
    LET s0 == [self EXCEPT !.tail_length = tail_length + 1]
        s1 == [s0 EXCEPT !.comet_colors = <<>>, !.reverse_comet_colors = <<>>,
                         !.initial_reverse = reverse, !.reverse = reverse,
                         !.bounce = bounce, !.computed_color = color,
                         !.cgen = NewCometGenerator]
    IN IF tail_length = 0
       THEN [s0 EXCEPT !.raising = "ZeroDivisionError"]    \* 0.9 / tail_length
       ELSE AnimationInit(s1, speed, color, t)

\* Comet(pixel_object, speed, color, tail_length, reverse, bounce)
NewComet(speed, color, tail_length, reverse, bounce, t) ==
    CometInit([Blank EXCEPT !.kind = "Comet"], speed, color, tail_length, reverse,
              bounce, t)

(* -------------------------------- Chase ------------------------------- *)

\* space_color(n, pixel_no): the integer 0
SpaceColor == <<0>>

\* bar_color(n, pixel_no): self.color
BarColor(self) == self.color

\* mutant of LeadInIsBar: the lead-in compared with the bar size
LeadInIsBarBySize(self, i) == i > self.size

\* bar_colors' first loop, for i in range(self._offset, 0, -1): i > self._spacing
LeadInIsBar(self, i) == i > self.spacing

\* bar_colors' while loop: _size bar pixels, then _spacing space pixels, repeated;
\* k counts the values the while loop has yielded before this one
RepeatIsBar(self, k) == (k % self.repeat_width) < self.size

\* the value bar_colors() yields after k earlier ones
BarColors(self, k) ==
    IF k < self.offset
    THEN IF LeadInIsBar(self, self.offset - k) THEN BarColor(self) ELSE SpaceColor
    ELSE IF RepeatIsBar(self, k - self.offset) THEN BarColor(self) ELSE SpaceColor

\* draw's test: self.draw_count % len(self.pixel_object) == 0
ChaseCycleDue(self) == self.draw_count % Len(self.pixels) = 0

\* Chase.draw()
ChaseDraw(self) ==
    LET s1 == [self EXCEPT !.pixels = [j \in 1..Len(self.pixels) |->
                                          BarColors(self, j - 1)],
                           !.written = [lo |-> 0, hi |-> Len(self.pixels),
                                        n |-> Len(self.pixels)],
                           !.frames = @ + 1]
        s2 == IF ChaseCycleDue(s1) THEN CycleComplete(s1) ELSE s1
    IN IF Len(self.pixels) = 0
       THEN [s1 EXCEPT !.raising = "ZeroDivisionError"]
       ELSE IF s2.raising # "" THEN s2
       ELSE [s2 EXCEPT !.offset = (@ + s2.direction) % s2.repeat_width]

\* Chase.reset(): the _resetter closure
ChaseReset(self) ==
    [self EXCEPT !.offset = 0, !.reverse = self.initial_reverse,
                 !.direction = IF self.initial_reverse THEN -1 ELSE 1]

\* Chase.__init__ over the buffer `pixels`
ChaseInit(self, pixels, speed, color, size, spacing, reverse, t) ==
    LET width == size + spacing
        len == Len(pixels)
        s1 == [self EXCEPT !.pixels = pixels, !.size = size, !.spacing = spacing,
                           !.repeat_width = width]
        s2 == [s1 EXCEPT !.num_repeats = (len + width - 1) \div width,
                         !.overflow = len % width,
                         !.direction = IF reverse THEN -1 ELSE 1,
                         !.reverse = reverse, !.initial_reverse = reverse,
                         !.offset = 0]
    IN IF width = 0
       THEN [s1 EXCEPT !.raising = "ZeroDivisionError"]    \* len / 0
       ELSE AnimationInit(s2, speed, color, t)

\* Chase(pixel_object, speed, color, size, spacing, reverse)
NewChase(speed, color, size, spacing, reverse, t) ==
    ChaseInit([Blank EXCEPT !.kind = "Chase"], Fill(BLACK), speed, color, size,
              spacing, reverse, t)

(* ------------------------- draw, reset, animate ----------------------- *)

\* self.draw(), by class
Draw(self) ==
    CASE self.kind = "Comet" -> CometDraw(self)
      [] self.kind = "Chase" -> ChaseDraw(self)
      [] OTHER -> ColorCycleDraw(self)

\* self.reset(), by class
ResetOf(self) ==
    CASE self.kind = "Comet" -> CometReset(self)
      [] self.kind = "Chase" -> ChaseReset(self)
      [] OTHER -> ColorCycleReset(self)

\* mutant of PeerDraw: a paused peer is left out
PeerDrawUnlessPaused(f, peer) == IF f[peer].paused THEN f[peer] ELSE Draw(f[peer])

\* peer.draw()
PeerDraw(f, peer) == Draw(f[peer])

\* for peer in self.peers: peer.draw() -- the objects afterwards and the draw()
\* calls made, in order; an exception ends the loop
RECURSIVE DrawPeers(_, _, _)
DrawPeers(f, peers, calls) ==
    IF peers = <<>> THEN [objs |-> f, calls |-> calls]
    ELSE LET peer == Head(peers)
             f1 == [f EXCEPT ![peer] = PeerDraw(f, peer)]
             c1 == Append(calls, peer)
         IN IF f1[peer].raising # ""
            THEN [objs |-> f1, calls |-> c1]
            ELSE DrawPeers(f1, Tail(peers), c1)

\* mutant of IsPaused: the paused flag is not consulted
IsPausedIgnored(self) == FALSE

\* animate's first test: self._paused
IsPaused(self) == self.paused

\* mutant of BeforeNextUpdate: the fire time itself is still too early
BeforeNextUpdateInclusive(self, t) == t <= self.next_update

\* animate's second test: now < self._next_update
BeforeNextUpdate(self, t) == t < self.next_update

\* animate's rescheduling: now + self._speed_ns
Reschedule(self, t) == t + self.speed_ns

\* the exception that is leaving a method of one of the objects ("" if none)
Raising(f) ==
    IF \E id \in DOMAIN f : f[id].raising # ""
    THEN f[CHOOSE id \in DOMAIN f : f[id].raising # ""].raising
    ELSE ""

\* the objects once the caller has caught the exception
Caught(f) == [id \in DOMAIN f |-> [f[id] EXCEPT !.raising = ""]]

\* what animate() hands back: the return value, the exception that left the call
\* ("" if it returned), the draw() calls it made, and the objects afterwards
Outcome(ret, raised, calls, f) ==
    [ret |-> ret, raised |-> raised, calls |-> calls, objs |-> f]

\* animate() after the peers' loop: self._next_update = ...; return True
AfterPeers(p, id, t) ==
    IF Raising(p.objs) # ""
    THEN Outcome(FALSE, Raising(p.objs), p.calls, Caught(p.objs))
    ELSE Outcome(TRUE, "", p.calls,
                 [p.objs EXCEPT ![id].next_update = Reschedule(p.objs[id], t)])

\* animate() after self.draw(): self.draw_count += 1 and the peers' loop
AfterDraw(f, id, t) ==
    IF Raising(f) # ""
    THEN Outcome(FALSE, Raising(f), <<id>>, Caught(f))
    ELSE AfterPeers(DrawPeers([f EXCEPT ![id].draw_count = @ + 1], f[id].peers, <<id>>),
                    id, t)

\* animate() of object id at time t
AnimateOf(f, id, t) ==
    IF IsPaused(f[id]) THEN Outcome(FALSE, "", <<>>, f)
    ELSE IF BeforeNextUpdate(f[id], t) THEN Outcome(FALSE, "", <<>>, f)
    ELSE AfterDraw([f EXCEPT ![id] = Draw(f[id])], id, t)

(* ------------------------------ the system ---------------------------- *)

\* the object the caller drives; object 2 is drawn only as its peer
Driver == 1
Peer == 2

Periods == 1..MaxPeriod

\* the color lists a ColorCycle is constructed with: tuples and packed integers
CycleLists == { <<RED>>, <<RED, BLUE>>, <<RED, Packed(BLUE), BLACK>> }

\* the colors a Blink is constructed with
BlinkColors == { RED, Packed(BLUE) }

\* the tail_length values a Comet is constructed with (at most the buffer length)
TailLengths == 1..NumPixels

NoCall == [op |-> "init", ret |-> FALSE, arg |-> None]

\* no freeze() is being followed
NoPause == [at |-> -1, fromRunning |-> FALSE, preNext |-> 0]

NoHistory ==
    [ lastFire |-> -1,        \* the time of the driver's previous fire, while
                              \* freeze() and resume() were never called
      usedPause |-> FALSE,    \* whether freeze() or resume() was ever called
      pause |-> NoPause,      \* the last freeze(): its time, whether it found the driver
                              \* unpaused, and _next_update when it was called; kept
                              \* until the call after the resume()
      wasReset |-> FALSE,     \* whether reset() was ever called on the driver
      signals |-> <<0, 0>> ]  \* the draw numbers of the last two cycle_complete calls

\* the peer: a two-color ColorCycle of its own
ThePeer == NewColorCycle(1, <<BLUE, RED>>, 0)

InitObjects(driver) ==
    /\ now = 0
    /\ \E peers \in {<<>>, <<Peer>>} :
          a = [id \in Ids |-> IF id = Driver THEN [driver EXCEPT !.peers = peers]
                              ELSE ThePeer]
    /\ last = NoCall
    /\ h = NoHistory

\* a ColorCycle or a Blink drives
Init ==
    \E speed \in Periods :
        \/ \E colors \in CycleLists : InitObjects(NewColorCycle(speed, colors, 0))
        \/ \E color \in BlinkColors : InitObjects(NewBlink(speed, color, 0))

\* a Comet drives
InitComet ==
    \E speed \in 0..1, tail \in TailLengths, reverse \in BOOLEAN, bounce \in BOOLEAN :
        InitObjects(NewComet(speed, RED, tail, reverse, bounce, 0))

\* the size and spacing values a Chase is constructed with
BarSizes == 0..MaxBar

\* a Chase drives
InitChase ==
    \E speed \in 0..1, size \in BarSizes, spacing \in BarSizes, reverse \in BOOLEAN :
        /\ size + spacing >= 1
        /\ InitObjects(NewChase(speed, RED, size, spacing, reverse, 0))

\* a second peer, a Chase, which is drawn only through the driver's fan-out
ChasePeer == 3

\* the peers lists the driver is given
PeerLists == { <<>>, <<Peer>>, <<ChasePeer>>, <<Peer, ChasePeer>>, <<ChasePeer, Peer>> }

\* a ColorCycle drives a ColorCycle peer and a Chase peer
InitPeers ==
    /\ now = 0
    /\ \E speed \in Periods, peers \in PeerLists :
          a = [id \in {Driver, Peer, ChasePeer} |->
                 CASE id = Driver ->
                        [NewColorCycle(speed, <<RED, BLUE>>, 0) EXCEPT !.peers = peers]
                   [] id = Peer -> ThePeer
                   [] OTHER -> NewChase(1, BLUE, 1, 1, FALSE, 0)]
    /\ last = NoCall
    /\ h = NoHistory

\* a pixel object of n pixels, all off
Sink(n) == [i \in 1..n |-> BLACK]

\* the object exists: one of the constructors has returned it
Constructed(self) == self.kind # "Animation"

\* nothing has been constructed yet
InitConstruct ==
    /\ now = 0
    /\ a = [id \in Ids |-> IF id = Driver THEN Blank ELSE ThePeer]
    /\ last = NoCall
    /\ h = NoHistory

\* one ColorCycle and one listener, one Comet and one Chase
InitFailure ==
    \/ InitObjects(NewColorCycle(1, <<RED, BLUE>>, 0))
    \/ InitObjects(NewComet(0, RED, 1, FALSE, FALSE, 0))
    \/ InitObjects(NewChase(0, RED, 1, 1, FALSE, 0))

\* the fires a driver is followed for: a Comet for MaxSweeps of its longest sweeps
\* and the draw that ends the last of them
DrawBound(self) ==
    IF self.kind = "Comet" THEN MaxSweeps * (2 * NumPixels + 2) + 1 ELSE MaxDraws

\* the freeze() being followed, dropped by the call after its resume()
Followed(pause) == IF a[Driver].paused THEN pause ELSE NoPause

\* the clock advances
Tick ==
    \E d \in 1..MaxStep :
        /\ now + d <= MaxTime
        /\ now' = now + d
        /\ last' = [op |-> "tick", ret |-> FALSE, arg |-> None]
        /\ h' = [h EXCEPT !.pause = Followed(@)]
        /\ UNCHANGED a

\* the caller's loop calls animate() on the driver
Animate ==
    LET res == AnimateOf(a, Driver, now)
        signalled == res.objs[Driver].cycle_count # a[Driver].cycle_count
    IN /\ Constructed(a[Driver])
       /\ a[Driver].draw_count < DrawBound(a[Driver])
       /\ a[Driver].frames < DrawBound(a[Driver])
       /\ a' = res.objs
       /\ last' = [op |-> "animate", ret |-> res.ret, arg |-> None,
                   raised |-> res.raised,   \* the exception that left the call
                   calls |-> res.calls]     \* the draw() calls made, in order
       /\ h' = [h EXCEPT !.lastFire = IF res.ret /\ ~h.usedPause THEN now ELSE @,
                         !.pause = Followed(@),
                         !.signals = IF signalled
                                     THEN <<@[2], res.objs[Driver].draw_count>>
                                     ELSE @]
       /\ UNCHANGED now

Freeze ==
    /\ a' = [a EXCEPT ![Driver] = FreezeOf(a[Driver], now)]
    /\ last' = [op |-> "freeze", ret |-> FALSE, arg |-> None]
    /\ h' = [h EXCEPT !.usedPause = TRUE, !.lastFire = -1,
                      !.pause = [at |-> now, fromRunning |-> ~a[Driver].paused,
                                 preNext |-> a[Driver].next_update]]
    /\ UNCHANGED now

Resume ==
    /\ a' = [a EXCEPT ![Driver] = ResumeOf(a[Driver], now)]
    /\ last' = [op |-> "resume", ret |-> FALSE, arg |-> None]
    /\ h' = [h EXCEPT !.usedPause = TRUE, !.lastFire = -1]
    /\ UNCHANGED now

\* the caller assigns the driver's color
SetColor ==
    \E color \in ColorArgs :
        /\ a[Driver].recomputes < MaxRecomputes
        /\ a' = [a EXCEPT ![Driver] = SetColorOf(a[Driver], color)]
        /\ last' = [op |-> "color", ret |-> FALSE, arg |-> color]
        /\ UNCHANGED <<now, h>>

\* the caller resets the driver, once
Reset ==
    /\ ~h.wasReset
    /\ a' = [a EXCEPT ![Driver] = ResetOf(a[Driver])]
    /\ last' = [op |-> "reset", ret |-> FALSE, arg |-> None]
    /\ h' = [h EXCEPT !.wasReset = TRUE, !.signals = <<0, 0>>]
    /\ UNCHANGED now

\* the caller freezes one of the peers, once
FreezePeer ==
    \E p \in {Peer, ChasePeer} :
        /\ ~a[p].paused
        /\ a' = [a EXCEPT ![p] = FreezeOf(a[p], now)]
        /\ last' = [op |-> "freeze_peer", ret |-> FALSE, arg |-> None]
        /\ UNCHANGED <<now, h>>

\* the caller's loop calls animate() on the ColorCycle peer too
AnimatePeer ==
    LET res == AnimateOf(a, Peer, now)
    IN /\ a[Peer].draw_count < MaxPeerFires
       /\ a' = res.objs
       /\ last' = [op |-> "animate_peer", ret |-> res.ret, arg |-> None]
       /\ UNCHANGED <<now, h>>

\* the caller constructs the driver: a ColorCycle, a Comet or a Chase over a pixel
\* object of n pixels; if the constructor raises there is no object
Construct ==
    /\ ~Constructed(a[Driver]) /\ last.op = "init"
    /\ \E n \in 0..NumPixels, kind \in {"ColorCycle", "Comet", "Chase"},
          colors \in {<<>>, <<RED>>, <<RED, BLUE>>}, k \in 0..1 :
          LET self == [Blank EXCEPT !.kind = kind, !.pixels = Sink(n)]
              obj == CASE kind = "ColorCycle" -> ColorCycleInit(self, 1, colors, now)
                       [] kind = "Comet" ->
                              CometInit(self, 1, RED, k, FALSE, FALSE, now)
                       [] OTHER -> ChaseInit(self, Sink(n), 1, RED, k, k, FALSE, now)
          IN /\ a' = [a EXCEPT ![Driver] = IF obj.raising = "" THEN obj ELSE Blank]
             /\ last' = [op |-> "construct", ret |-> obj.raising = "", arg |-> None,
                         raised |-> obj.raising]
    /\ UNCHANGED <<now, h>>

\* a callback starts or stops raising
CallbackFails ==
    \E failing \in SUBSET Listeners :
        /\ failing # a[Driver].failing
        /\ a' = [a EXCEPT ![Driver].failing = failing]
        /\ last' = [op |-> "failing", ret |-> FALSE, arg |-> None]
        /\ UNCHANGED <<now, h>>

\* add_cycle_complete_receiver(callback)
AddCycleCompleteReceiver ==
    \E callback \in Listeners :
        /\ Len(a[Driver].also_notify) < MaxListeners
        /\ a' = [a EXCEPT ![Driver].also_notify = Append(@, callback)]
        /\ last' = [op |-> "add_receiver", ret |-> FALSE, arg |-> None]
        /\ UNCHANGED <<now, h>>

\* the caller assigns notify_cycles
SetNotifyCycles ==
    \E n \in 1..MaxNotify :
        /\ a' = [a EXCEPT ![Driver].notify_cycles = n]
        /\ last' = [op |-> "notify_cycles", ret |-> FALSE, arg |-> None]
        /\ UNCHANGED <<now, h>>

(* --------------------------- specifications --------------------------- *)

\* the caller only drives the animation: clock, animate, freeze, resume
NextTiming == Tick \/ Animate \/ Freeze \/ Resume

SpecTiming == Init /\ [][NextTiming]_vars

\* the caller registers callbacks and sets notify_cycles while the animation runs
NextNotify == Tick \/ Animate \/ AddCycleCompleteReceiver \/ SetNotifyCycles

SpecNotify == Init /\ [][NextNotify]_vars

\* the caller assigns colors and resets while the animation runs
NextColor == Tick \/ Animate \/ SetColor \/ Reset

SpecColor == Init /\ [][NextColor]_vars

\* a ColorCycle or Blink is driven and reset
NextReset == Tick \/ Animate \/ Reset

SpecReset == Init /\ [][NextReset]_vars

\* a Comet is driven and reset
NextComet == Tick \/ Animate \/ Reset

SpecComet == InitComet /\ [][NextComet]_vars

\* a Chase is driven and reset
NextChase == Tick \/ Animate \/ Reset

SpecChase == InitChase /\ [][NextChase]_vars

\* the driver has peers; the caller also freezes and animates them
NextPeers == Tick \/ Animate \/ AnimatePeer \/ FreezePeer

SpecPeers == InitPeers /\ [][NextPeers]_vars

\* the caller constructs an animation over some pixel object and drives it
NextConstruct == Construct \/ Tick \/ Animate

SpecConstruct == InitConstruct /\ [][NextConstruct]_vars

\* callbacks are registered, and they may raise
NextFailure == Tick \/ Animate \/ AddCycleCompleteReceiver \/ CallbackFails

SpecFailure == InitFailure /\ [][NextFailure]_vars

(* ------------------------------- claims -------------------------------- *)

D == a[Driver]

\* C1 (SpecTiming).  Timing gate: while the driver was never paused (neither freeze()
\* nor resume() was called), a call of animate() returns True exactly when the clock is at or past the previous fire plus
\* the period (the first call after construction always fires); a call that returns
\* True draws one frame, adds one to draw_count and schedules the next fire one
\* period after the clock; a call that returns False changes nothing at all.
C1_TimingGate ==
    [][ (last'.op = "animate" /\ ~h.usedPause) =>
          LET due == h.lastFire < 0 \/ now >= h.lastFire + D.speed_ns
          IN /\ last'.ret <=> due
             /\ last'.ret => /\ D'.draw_count = D.draw_count + 1
                             /\ D'.frames = D.frames + 1
                             /\ D'.next_update = now + D.speed_ns
             /\ ~last'.ret => a' = a ]_vars

\* C1 witness: after two fires a call came too early and was refused.
C1_Witness ==
    /\ last.op = "animate" /\ ~last.ret /\ ~h.usedPause
    /\ D.draw_count >= 2 /\ now < h.lastFire + D.speed_ns

\* C2 (SpecTiming).  While the driver is paused every animate() returns False and
\* leaves every object (pixels, counters, generator, peers) as it was.
C2_PausedNeverFires ==
    [][ (last'.op = "animate" /\ D.paused) => (~last'.ret /\ a' = a) ]_vars

\* C2 witness: animate() was called on a paused driver that has a peer, with the
\* clock a full period past its next fire time.
C2_Witness ==
    /\ last.op = "animate" /\ D.paused /\ D.peers # <<>>
    /\ now >= D.next_update + D.speed_ns

\* C3 (SpecTiming), as claimed.  freeze() on an unpaused driver followed by resume()
\* at the same clock value leaves _next_update as it was before the freeze().
C3_ZeroPauseIdentity ==
    (last.op = "resume" /\ h.pause.fromRunning /\ h.pause.at = now)
        => D.next_update = h.pause.preNext

\* C4 (SpecTiming), as claimed.  freeze() at t1 with r = _next_update - t1 > 0 left,
\* then resume() at t2, leaves _next_update = t2 + r.
C4_PausePreservesRemaining ==
    (last.op = "resume" /\ h.pause.fromRunning /\ h.pause.preNext > h.pause.at)
        => D.next_update = now + (h.pause.preNext - h.pause.at)

\* C5 (SpecNotify).  Every cycle_complete() adds exactly one to cycle_count, and it
\* invokes the registered callbacks, each once and in registration order, exactly
\* when the new cycle_count is a multiple of notify_cycles; otherwise it invokes none.
C5_CycleNotification ==
    [][ D'.cycle_count # D.cycle_count =>
          /\ D'.cycle_count = D.cycle_count + 1
          /\ D'.notified = IF D'.cycle_count % D.notify_cycles = 0
                           THEN D.also_notify
                           ELSE <<>> ]_vars

\* C5 witness: with notify_cycles = 2 and two callbacks registered as 2, 1, the
\* second cycle invoked 2 then 1.
C5_Witness ==
    /\ last.op = "animate" /\ last.ret
    /\ D.notify_cycles = 2 /\ D.cycle_count = 2
    /\ D.also_notify = <<2, 1>> /\ D.notified = <<2, 1>>

\* C6 (SpecColor), as claimed.  Assigning a color that denotes the current color, as
\* a triple or as its packed integer, changes nothing (the hook's call count too).
C6_EqualColorNoOp ==
    [][ (last'.op = "color" /\ Denotes(last'.arg) = Denotes(D.color)) => a' = a ]_vars

\* C7 (SpecTiming).  Driven only by fires, the i-th fire fills the pixels with
\* colors[(i-1) mod k] and after i fires cycle_count = i div k.
C7_ColorCycleSequence ==
    D.draw_count >= 1 =>
        LET k == Len(D.colors)
            i == D.draw_count
        IN /\ D.pixels = Fill(D.colors[((i - 1) % k) + 1])
           /\ D.cycle_count = i \div k

\* C7 witness: a three-color ColorCycle after its fourth fire, one cycle completed.
C7_Witness ==
    /\ D.kind = "ColorCycle" /\ Len(D.colors) = 3
    /\ D.draw_count = 4 /\ D.cycle_count = 1

\* C8 (SpecColor), as claimed.  Without reset(), every frame a Blink draws is the
\* current on-color when the cycle is at its on position and BLACK when it is at its
\* off position, whatever colors were assigned in between.
C8_BlinkAlternation ==
    [][ (last'.op = "animate" /\ last'.ret /\ D.kind = "Blink" /\ ~h.wasReset) =>
          D'.pixels = IF D.gen.index = 0 THEN Fill(D.colors[1]) ELSE Fill(BLACK) ]_vars

\* the driver's cycle_complete calls: the first during draw d + 1, the later ones d
\* draws after the one before
SignalsApart(d) ==
    /\ (h.signals[1] = 0 /\ h.signals[2] > 0) => h.signals[2] = d + 1
    /\ h.signals[1] > 0 => h.signals[2] - h.signals[1] = d

\* C9 (SpecComet), as claimed.  Without bounce and without reset(), a sweep is
\* N + T + 1 draws and cycle_complete calls are N + T + 1 draws apart.
C9_SweepLengthClaimed ==
    (~D.bounce /\ ~h.wasReset) => SignalsApart(NumPixels + (D.tail_length - 1) + 1)

\* C9 (SpecComet), amended.  Without bounce and without reset(), a sweep is
\* N + T + 2 draws in either direction: the generator walks N + T + 2 positions,
\* cycle_complete is first called during draw N + T + 3 and then every N + T + 2
\* draws.
C9_SweepLength ==
    (~D.bounce /\ ~h.wasReset) =>
        /\ SignalsApart(NumPixels + (D.tail_length - 1) + 2)
        /\ ~D.cgen.fresh => Len(D.cgen.range) = NumPixels + (D.tail_length - 1) + 2

\* C9 witness: a reversed Comet without bounce has signalled twice.
C9_Witness ==
    /\ ~D.bounce /\ ~h.wasReset /\ D.initial_reverse
    /\ h.signals[1] > 0 /\ D.cycle_count = 2

\* C10 (SpecComet).  A draw completes a sweep exactly when the generator stood at
\* the last position of its range.  With bounce the reverse flag flips at every
\* completed sweep and cycle_complete is called at the even-numbered ones only;
\* without bounce the flag never changes and cycle_complete is called at every
\* completed sweep.  A draw that completes no sweep changes neither.  (Sweeps are
\* counted from construction or the last reset().)
C10_Bounce ==
    [][ /\ ~D.bounce => D'.reverse = D.reverse
        /\ last'.op = "animate" =>
             LET ended == last'.ret /\ ~D.cgen.fresh /\ D.cgen.pos = Len(D.cgen.range)
                 even == D'.sweeps % 2 = 0
             IN /\ D'.sweeps = D.sweeps + (IF ended THEN 1 ELSE 0)
                /\ D'.reverse = IF ended /\ D.bounce THEN ~D.reverse ELSE D.reverse
                /\ D'.cycle_count = D.cycle_count +
                       (IF ended /\ (~D.bounce \/ even) THEN 1 ELSE 0) ]_vars

\* C10 witness: a bouncing Comet has just completed its second sweep: one cycle,
\* and the reverse flag is back at its initial value.
C10_Witness ==
    /\ last.op = "animate" /\ D.bounce /\ ~h.wasReset
    /\ D.sweeps = 2 /\ D.cycle_count = 1 /\ D.reverse = D.initial_reverse
    /\ D.cgen.pos = 1

\* C11 (SpecComet), as claimed.  With 1 <= tail_length <= N every slice assignment
\* a Comet makes targets indices within [0, N) only and supplies exactly as many
\* colors as the targeted slice holds.
C11_CometWithinBuffer ==
    (D.kind = "Comet" /\ D.tail_length - 1 <= NumPixels) =>
        /\ 0 <= D.written.lo /\ D.written.lo <= D.written.hi
        /\ D.written.hi <= NumPixels
        /\ D.written.n = D.written.hi - D.written.lo

\* C12 (SpecChase).  Every frame a Chase draws at offset o has pixel j (0 <= j < N)
\* as bar exactly when ((j - o) mod (size + spacing)) < size and as space otherwise,
\* and the draw moves the offset by exactly one, up when reverse is false and down
\* when it is true, within [0, size + spacing): each frame is the previous one
\* shifted by one pixel, never restarted at a bar boundary.
C12_ChasePhase ==
    [][ (last'.op = "animate" /\ last'.ret /\ D.kind = "Chase") =>
          /\ \A j \in 0..(NumPixels - 1) :
                D'.pixels[j + 1] = IF ((j - D.offset) % D.repeat_width) < D.size
                                   THEN D.color
                                   ELSE SpaceColor
          /\ D'.offset = (D.offset + (IF D.reverse THEN -1 ELSE 1)) % D.repeat_width
          /\ D'.offset \in 0..(D.repeat_width - 1) ]_vars

\* C12 witness: a reversed Chase with size 1 and spacing 2 has drawn at offsets
\* 0, 2 and 1; the last frame begins inside a space and the offset is back at 0.
C12_Witness ==
    /\ last.op = "animate" /\ last.ret /\ D.kind = "Chase" /\ D.reverse
    /\ D.size = 1 /\ D.spacing = 2 /\ D.draw_count = 3 /\ D.offset = 0
    /\ D.pixels[1] = SpaceColor /\ D.pixels[2] = D.color

\* C13 (SpecChase), as claimed.  Driven only by its own animate(), a Chase has
\* cycle_count = floor(k / N) after k fires.
C13_ChaseCycles ==
    (D.kind = "Chase" /\ ~h.wasReset) => D.cycle_count = D.draw_count \div NumPixels

\* the set of the elements of a sequence
Elements(seq) == { seq[i] : i \in 1..Len(seq) }

\* C14 (SpecPeers).  When animate() on the driver fires, the draw() calls made are
\* the driver's own followed by one on each peer in peers order, whatever the
\* peer's paused flag and next fire time: each peer shows exactly one more frame.
\* When animate() returns False no draw() call is made and no peer changes.  In
\* both cases every peer's paused flag and next fire time stay as they were.
C14_PeerFanOut ==
    [][ last'.op = "animate" =>
          /\ last'.ret =>
                /\ last'.calls = <<Driver>> \o D.peers
                /\ \A p \in Elements(D.peers) : a'[p].frames = a[p].frames + 1
          /\ ~last'.ret =>
                /\ last'.calls = <<>>
                /\ \A p \in DOMAIN a \ {Driver} : a'[p] = a[p]
          /\ \A p \in DOMAIN a \ {Driver} :
                /\ a'[p].paused = a[p].paused
                /\ a'[p].next_update = a[p].next_update
                /\ a'[p].draw_count = a[p].draw_count
                /\ p \notin Elements(D.peers) => a'[p] = a[p] ]_vars

\* C14 witness: the driver fired with peers (Chase, ColorCycle); the Chase peer is
\* paused and the ColorCycle peer's own next fire time is still ahead; both were
\* drawn, in that order.
C14_Witness ==
    /\ last.op = "animate" /\ last.ret
    /\ D.peers = <<ChasePeer, Peer>> /\ last.calls = <<Driver, ChasePeer, Peer>>
    /\ a[ChasePeer].paused /\ a[Peer].next_update > now
    /\ a[ChasePeer].frames = 2 /\ a[Peer].frames >= 2

\* C19 (SpecPeers), as claimed.  A Chase that is drawn only through the driver's
\* fan-out signals cycle_complete at most once per N of its drawn frames: after k
\* frames at most ceil(k / N) cycles.
C19_ChasePeerCycles ==
    ChasePeer \in DOMAIN a =>
        a[ChasePeer].cycle_count
            <= (a[ChasePeer].frames + NumPixels - 1) \div NumPixels

\* C15 (SpecReset), as claimed.  The first frame drawn after reset() on a
\* ColorCycle or Blink is colors[0], as after construction.  (The generator is
\* unentered only after reset(): the constructor runs it to its first yield.)
C15_RestartAtFirstColor ==
    [][ (last'.op = "animate" /\ last'.ret /\ D.gen.fresh) =>
          \A j \in 1..NumPixels : Denotes(D'.pixels[j]) = Denotes(D.colors[1]) ]_vars

\* C17 (SpecColor), as claimed.  The color property of every animation holds an
\* RGB triple in every reachable state.
C17_ColorIsTriple == \A id \in DOMAIN a : Len(a[id].color) = 3

\* C16 (SpecConstruct), as claimed.  No animation exists over a zero-length pixel
\* object, and no ColorCycle with an empty color list: their construction fails.
C16_InvalidNeverConstructed ==
    Constructed(D) =>
        /\ Len(D.pixels) > 0
        /\ D.kind = "ColorCycle" => D.colors # <<>>

\* C18 (SpecFailure), as claimed.  After a callback has raised out of animate(),
\* the animation stays usable: an animate() call during which no callback raises
\* does not raise.
C18_RecoversAfterFailure ==
    [][ (last'.op = "animate" /\ D.failing = {}) => last'.raised = "" ]_vars

\* C20 (SpecComet).  For a Comet with tail_length < N, after the last step of a
\* sweep (the generator stands at the last position of its range) every pixel is
\* off, in either direction, with or without bounce, whatever the buffer held
\* when the sweep started.
C20_NoResidue ==
    (D.kind = "Comet" /\ D.tail_length - 1 < NumPixels
        /\ ~D.cgen.fresh /\ D.cgen.pos = Len(D.cgen.range))
        => D.pixels = Fill(BLACK)

\* C20 witness: a bouncing Comet with tail_length 1 started reversed, never reset;
\* it stands at the last step of its second sweep, a forward one, and the buffer is
\* all off again.
C20_Witness ==
    /\ last.op = "animate" /\ last.ret /\ ~h.wasReset
    /\ D.kind = "Comet" /\ D.bounce /\ D.initial_reverse /\ D.tail_length = 2
    /\ D.sweeps = 1 /\ ~D.cgen.fresh /\ D.cgen.pos = Len(D.cgen.range)
    /\ D.pixels = Fill(BLACK)

====
